---- MODULE Spec2Model ----
(***************************************************************************)
(* Model of the stackwise backend (src/backend): the four POST endpoints   *)
(* of app.py, the graph helpers they call, the deterministic Markdown      *)
(* builder of llm_prompt_builder.py and the script generator of            *)
(* repo_builder.py.                                                        *)
(*                                                                         *)
(* The state is the process-wide model handle (gemini_model) and, for the  *)
(* request handled last, the request, what the external model answered,    *)
(* how many times the model was called, the lines printed to the server    *)
(* log, whether response.text was read, the caller's graph object as the   *)
(* handler left it, and the response sent.  Each endpoint is one action    *)
(* that runs the whole handler.                                            *)
(*                                                                         *)
(* A second specification, ConcSpec, runs the handlers on the worker       *)
(* threads of the server, one step of a handler at a time, with the        *)
(* requests in flight kept in threads.  A third, HelperSpec, calls the two *)
(* graph helpers directly and keeps what the last call returned in         *)
(* returned.                                                               *)
(***************************************************************************)
EXTENDS Integers, Sequences, FiniteSets, TLC

VARIABLES gemini_model, request, modelOut, calls, log, text_read, response,
          threads, graph_after, returned

vars ==
    <<gemini_model, request, modelOut, calls, log, text_read, response, threads,
      graph_after, returned>>

(***************************************************************************)
(* Bounds of the model.                                                    *)
(***************************************************************************)
\* longest model response text for a graph operation, in tokens
MaxText == 6
\* most nodes / edges of a graph submitted to build-agent-prompt
MaxNodes == 2
MaxEdges == 1
\* longest user context submitted to build-agent-prompt, in characters
MaxCtx == 3
\* longest model response text for build-repo-script, in tokens
MaxScript == 4
\* worker threads handling requests at the same time
MaxWorkers == 2

(***************************************************************************)
(* HTTP status codes the endpoints answer with.                            *)
(***************************************************************************)
OK == 200
BadRequest == 400
InternalError == 500
ServiceUnavailable == 503

(***************************************************************************)
(* Generic helpers.                                                        *)
(***************************************************************************)
SeqsUpTo(S, n) == UNION {[1..k -> S] : k \in 0..n}

Min(S) == CHOOSE x \in S : \A y \in S : x <= y
Max(S) == CHOOSE x \in S : \A y \in S : x >= y

\* A dict key that is absent (dict.get returns None / the default).
NoKey == "<absent>"

(***************************************************************************)
(* JSON values as the handlers see them.  A field of a graph object is     *)
(* missing, a list (with its items) or some other JSON value.              *)
(***************************************************************************)
Missing == [kind |-> "missing", items |-> <<>>]
NotAList == [kind |-> "other", items |-> <<>>]
List(xs) == [kind |-> "list", items |-> xs]

\* isinstance(d.get(k), list)
IsList(f) == f.kind = "list"
\* k in d
HasKey(f) == f.kind # "missing"

\* A graph value in a request body: absent (None), a JSON object, or a
\* non-empty JSON array (truthy, but no dict).
AbsentGraph == [kind |-> "absent", nodes |-> Missing, edges |-> Missing]
ArrayValue == [kind |-> "array", nodes |-> Missing, edges |-> Missing]
Dict(n, e) == [kind |-> "dict", nodes |-> n, edges |-> e]

\* Python truthiness of a graph value: None and {} are falsy.
Truthy(g) ==
    \/ g.kind = "array"
    \/ g.kind = "dict" /\ (HasKey(g.nodes) \/ HasKey(g.edges))

(***************************************************************************)
(* The Mock Graph (create_mock_tech_stack).                                *)
(***************************************************************************)
MockNode(id, label, type, details) ==
    [id |-> id, label |-> label, type |-> type, details |-> details]

MockEdge(id, source, target) == [id |-> id, source |-> source, target |-> target]

mock_nodes ==
    << MockNode("mock_node_react", "React", "frontend", ""),
       MockNode("mock_node_flask", "Flask", "backend", "PORT=5001"),
       MockNode("mock_node_postgres", "PostgreSQL", "database", "DB_URL=...") >>

mock_edges ==
    << MockEdge("mock_edge_react_flask", "mock_node_react", "mock_node_flask"),
       MockEdge("mock_edge_flask_postgres", "mock_node_flask", "mock_node_postgres") >>

\* A graph object as the pipeline produces it: nodes, edges, the keys
\* "mocked" and "v" (present or not) and the value of key "d" (<<>> when the
\* key is absent, else a one-element sequence holding the nested object).
GraphObj(n, e, m, v, d) ==
    [nodes |-> n, edges |-> e, mocked |-> m, v |-> v, d |-> d]

create_mock_tech_stack ==
    GraphObj(List(mock_nodes), List(mock_edges), TRUE, FALSE, <<>>)

(***************************************************************************)
(* Model response text for a graph operation, as a sequence of tokens.     *)
(* Each token stands for a run of characters:                              *)
(*   "{"  "}"  the brace characters                                        *)
(*   "g"  the members  "nodes":[],"edges":[]                               *)
(*   "n"  the member   "nodes":[]                                          *)
(*   "v"  the text     ,"v":NaN        (a further member, not strict JSON) *)
(*   "d"  the text     ,"d":           (a further key, its value follows)  *)
(*   "p"  a run of prose without braces (words, a code fence, a newline)   *)
(***************************************************************************)
Token == {"{", "}", "g", "n", "v", "d", "p"}

Texts == SeqsUpTo(Token, MaxText)

\* str.find / str.rfind: Python's 0-based index, -1 when absent.
find(s, c) ==
    IF \E i \in 1..Len(s) : s[i] = c
    THEN Min({i \in 1..Len(s) : s[i] = c}) - 1
    ELSE -1

rfind(s, c) ==
    IF \E i \in 1..Len(s) : s[i] = c
    THEN Max({i \in 1..Len(s) : s[i] = c}) - 1
    ELSE -1

\* s[a:b] for 0 <= a, 0 <= b
Slice(s, a, b) == SubSeq(s, a + 1, b)

(***************************************************************************)
(* json.loads on a token sequence.  The grammar of an object is            *)
(*     "{" "}"   |   "{" head ext* "}"                                     *)
(* with head one of "g", "n" and ext one of "v", "d" object.  A later      *)
(* member with the same key replaces the earlier one.  With allowNaN the   *)
(* parser takes the NaN literal, as json.loads does; without it the        *)
(* grammar is strict JSON.                                                 *)
(* Parse results are [ok, pos, val]: pos is the index after the object.    *)
(***************************************************************************)
ParseFail == [ok |-> FALSE, pos |-> 0, val |-> GraphObj(Missing, Missing, FALSE, FALSE, <<>>)]

RECURSIVE ParseObject(_, _, _)
RECURSIVE ParseMembers(_, _, _, _)

\* after the head: further members up to the closing brace
ParseMembers(s, i, acc, allowNaN) ==
    IF i > Len(s) THEN ParseFail
    ELSE IF s[i] = "}" THEN [ok |-> TRUE, pos |-> i + 1, val |-> acc]
    ELSE IF s[i] = "v" /\ allowNaN
        THEN ParseMembers(s, i + 1, [acc EXCEPT !.v = TRUE], allowNaN)
    ELSE IF s[i] = "d"
        THEN LET inner == ParseObject(s, i + 1, allowNaN)
             IN  IF inner.ok
                 THEN ParseMembers(s, inner.pos, [acc EXCEPT !.d = <<inner.val>>], allowNaN)
                 ELSE ParseFail
    ELSE ParseFail

ParseObject(s, i, allowNaN) ==
    IF i + 1 > Len(s) \/ s[i] # "{" THEN ParseFail
    ELSE IF s[i + 1] = "}"
        THEN [ok |-> TRUE, pos |-> i + 2,
              val |-> GraphObj(Missing, Missing, FALSE, FALSE, <<>>)]
    ELSE IF s[i + 1] = "g"
        THEN ParseMembers(s, i + 2, GraphObj(List(<<>>), List(<<>>), FALSE, FALSE, <<>>), allowNaN)
    ELSE IF s[i + 1] = "n"
        THEN ParseMembers(s, i + 2, GraphObj(List(<<>>), Missing, FALSE, FALSE, <<>>), allowNaN)
    ELSE ParseFail

\* The whole text must be one object: anything left over is "Extra data".
ParseDocument(s, allowNaN) ==
    LET r == ParseObject(s, 1, allowNaN)
    IN  IF r.ok /\ r.pos = Len(s) + 1 THEN r ELSE ParseFail

json_loads(s) == ParseDocument(s, TRUE)

(***************************************************************************)
(* The extraction step shared by generate_graph_from_scratch and           *)
(* modify_or_replace_graph: slice from the first "{" to the last "}" and   *)
(* parse it;  [ok |-> FALSE] stands for the ValueError / JSONDecodeError.  *)
(***************************************************************************)
\* variant: the slice starts at the last "{"
json_start_last(response_text) == rfind(response_text, "{")

json_start(response_text) == find(response_text, "{")

\* variant: the slice ends at the first "}"
json_end_first(response_text) == find(response_text, "}") + 1

json_end(response_text) == rfind(response_text, "}") + 1

json_str(response_text) ==
    Slice(response_text, json_start(response_text), json_end(response_text))

ExtractJson(response_text) ==
    IF json_start(response_text) # -1 /\ json_end(response_text) # 0
    THEN json_loads(json_str(response_text))
    ELSE ParseFail

\* variant: only the nodes field is checked
ValidStructure_nodes_only(tech_stack) == IsList(tech_stack.nodes)

\* variant: the check is on truthiness, which an empty list fails
ValidStructure_truthy(tech_stack) ==
    /\ IsList(tech_stack.nodes) /\ tech_stack.nodes.items # <<>>
    /\ IsList(tech_stack.edges) /\ tech_stack.edges.items # <<>>

\* isinstance(tech_stack.get('nodes'), list) and isinstance(tech_stack.get('edges'), list)
ValidStructure(tech_stack) == IsList(tech_stack.nodes) /\ IsList(tech_stack.edges)

(***************************************************************************)
(* What the external model does with one generate_content call.            *)
(***************************************************************************)
NotCalled == [kind |-> "none", text |-> <<>>]
Raises == [kind |-> "raise", text |-> <<>>]
Blocked == [kind |-> "blocked", text |-> <<>>]
Answers(t) == [kind |-> "text", text |-> t]

GraphModelOutcomes == {Raises, Blocked} \cup {Answers(t) : t \in Texts}

\* the shorter texts among them
ShortTexts == SeqsUpTo(Token, MaxText - 2)

ShortGraphModelOutcomes == {Raises, Blocked} \cup {Answers(t) : t \in ShortTexts}

\* The lines the two graph helpers print (the f-string arguments left out).
\* modify_or_replace_graph prints nothing on its blocked, JSON-error and
\* structure paths.
MockLine == "Creating mock tech stack as fallback for description"

NotInitializedLine == "Gemini model not initialized, using mock fallback."

generate_lines ==
    [ sending |-> <<"Sending prompt to Gemini for NEW graph generation">>,
      blocked |-> <<"Warning: Gemini response blocked or empty.",
                    "Gemini response blocked/empty, using mock fallback.">>,
      received |-> <<"Received response text from Gemini (React Flow format expected).">>,
      invalid_json |-> <<"JSON Decode Error (React Flow format)",
                         "Response Text causing error",
                         "Invalid JSON from Gemini, using mock fallback.">>,
      structure |-> <<"Generated JSON has incorrect structure, using mock fallback.">>,
      success |-> <<"Successfully generated NEW graph">>,
      error |-> <<"Error during Gemini call or processing, using mock fallback.">> ]

modify_lines ==
    [ sending |-> <<"Sending prompt to Gemini for graph MODIFICATION/REPLACEMENT">>,
      blocked |-> <<>>,
      received |-> <<>>,
      invalid_json |-> <<>>,
      structure |-> <<>>,
      success |-> <<"Successfully generated MODIFIED/REPLACED graph">>,
      error |-> <<"Error during Gemini call for graph MODIFICATION/REPLACEMENT">> ]

\* Helper results are [graph, calls, log, text_read]: the value returned,
\* the number of generate_content calls made, the lines printed and whether
\* response.text was read.
Returned(graph, n, lines, read) ==
    [graph |-> graph, calls |-> n, log |-> lines, text_read |-> read]

\* variant: the parts check is missing, a blocked response is read and parsed
GraphFromModel_reads_blocked(m, lines) ==
    IF m.kind = "raise"
    THEN Returned(create_mock_tech_stack, 1,
                  lines.sending \o lines.error \o <<MockLine>>, FALSE)
    ELSE LET parsed == ExtractJson(m.text)
         IN  IF ~parsed.ok \/ ~ValidStructure(parsed.val)
             THEN Returned(create_mock_tech_stack, 1,
                           lines.sending \o lines.received \o lines.invalid_json
                               \o <<MockLine>>, TRUE)
             ELSE Returned(parsed.val, 1,
                           lines.sending \o lines.received \o lines.success, TRUE)

\* The try block of both graph helpers once the model is called with
\* outcome m; lines are the helper's own log lines.
GraphFromModel(m, lines) ==
    IF m.kind = "raise"
    THEN Returned(create_mock_tech_stack, 1,
                  lines.sending \o lines.error \o <<MockLine>>, FALSE)
    ELSE IF m.kind = "blocked"
    THEN Returned(create_mock_tech_stack, 1,
                  lines.sending \o lines.blocked \o <<MockLine>>, FALSE)
    ELSE LET parsed == ExtractJson(m.text)
         IN  IF ~parsed.ok
             THEN Returned(create_mock_tech_stack, 1,
                           lines.sending \o lines.received \o lines.invalid_json
                               \o <<MockLine>>, TRUE)
             ELSE IF ~ValidStructure(parsed.val)
             THEN Returned(create_mock_tech_stack, 1,
                           lines.sending \o lines.received \o lines.structure
                               \o <<MockLine>>, TRUE)
             ELSE Returned(parsed.val, 1,
                           lines.sending \o lines.received \o lines.success, TRUE)

generate_graph_from_scratch(model, description, m) ==
    IF ~model
    THEN Returned(create_mock_tech_stack, 0, <<NotInitializedLine, MockLine>>, FALSE)
    ELSE GraphFromModel(m, generate_lines)

\* variant: a call that raised is made a second time
modify_or_replace_graph_retrying(model, existing_graph_json, user_request, m) ==
    IF ~model
    THEN Returned(create_mock_tech_stack, 0, <<NotInitializedLine, MockLine>>, FALSE)
    ELSE IF m.kind = "raise"
    THEN LET again == GraphFromModel(Answers(<<"{", "g", "}">>), modify_lines)
         IN  Returned(again.graph, 2, modify_lines.sending \o again.log, TRUE)
    ELSE GraphFromModel(m, modify_lines)

modify_or_replace_graph(model, existing_graph_json, user_request, m) ==
    IF ~model
    THEN Returned(create_mock_tech_stack, 0, <<NotInitializedLine, MockLine>>, FALSE)
    ELSE GraphFromModel(m, modify_lines)

(***************************************************************************)
(* Requests and responses.                                                 *)
(***************************************************************************)
Request(op, is_json, prompt, graph, context) ==
    [op |-> op, is_json |-> is_json, prompt |-> prompt, graph |-> graph,
     context |-> context]

NoRequest == Request("none", TRUE, "", AbsentGraph, <<>>)

\* jsonify({"error": ...}), status
Error(status, message) == [status |-> status, key |-> "error", body |-> message]
\* jsonify({key: value}) / jsonify(graph), 200
Success(key, value) == [status |-> OK, key |-> key, body |-> value]

NoResponse == [status |-> 0, key |-> "none", body |-> ""]

\* variant: the marker is read but left in place (get instead of pop)
pop_mocked_kept(generated_data) == generated_data

\* generated_data.pop('mocked', False)
pop_mocked(generated_data) == [generated_data EXCEPT !.mocked = FALSE]

\* variant: any graph that is present is modified, an empty one too
UseModify_present(existing_graph) ==
    /\ Truthy(existing_graph)
    /\ IsList(existing_graph.nodes)

\* the dispatch condition of api_generate_graph
UseModify(existing_graph) ==
    /\ Truthy(existing_graph)
    /\ IsList(existing_graph.nodes)
    /\ Len(existing_graph.nodes.items) > 0

\* Handler results are [response, out, calls, log, text_read]: the response
\* sent, the model outcome consumed, the number of model calls, the lines
\* printed and whether response.text was read.
Handled(resp, out, n) ==
    [response |-> resp, out |-> out, calls |-> n, log |-> <<>>, text_read |-> FALSE]

\* the same with the lines printed on the way
Logged(h, lines, read) == [h EXCEPT !.log = lines, !.text_read = read]

api_generate_graph_handler(model, req, m) ==
    IF ~req.is_json THEN Handled(Error(BadRequest, "Request must be JSON"), NotCalled, 0)
    ELSE IF req.prompt = "" THEN
        Handled(Error(BadRequest, "Missing 'prompt' in request body"), NotCalled, 0)
    ELSE IF ~model THEN
        Handled(Error(ServiceUnavailable, "Gemini API not configured on server."), NotCalled, 0)
    ELSE IF req.graph.kind = "array" THEN
        \* existing_graph.get raises AttributeError inside the try block
        Logged(Handled(Error(InternalError,
                             "An internal server error occurred during graph generation."),
                       NotCalled, 0),
               <<"Unexpected error in /api/generate-graph">>, FALSE)
    ELSE LET modify == UseModify(req.graph)
             r == IF modify
                  THEN modify_or_replace_graph(model, req.graph, req.prompt, m)
                  ELSE generate_graph_from_scratch(model, req.prompt, m)
             calling == IF modify
                        THEN <<"Calling modify_or_replace_graph...">>
                        ELSE <<"Calling generate_graph_from_scratch...">>
             returning ==
                 IF r.graph.mocked
                 THEN <<"Returning mocked graph data due to generation/modification failure.">>
                 ELSE <<>>
         IN  Logged(Handled(Success("graph", pop_mocked(r.graph)),
                            IF r.calls = 0 THEN NotCalled ELSE m, r.calls),
                    calling \o r.log \o returning, r.text_read)

(***************************************************************************)
(* generate_llm_builder_prompt (llm_prompt_builder.py).  A text is a       *)
(* sequence of lines, a line a sequence of string pieces that the f-string *)
(* concatenates; '\n'.join of no items is the text without lines.          *)
(***************************************************************************)
\* stands for the arrow of the edge lines (U+27A1 U+FE0F between blanks)
Arrow == " -> "

\* label = node_data.get('label', node_id if node_id else 'Unknown Component')
node_label(node) ==
    IF node.label # NoKey THEN node.label
    ELSE IF node.id # "" THEN node.id
    ELSE "Unknown Component"

\* details = node_data.get('details', 'No details provided')
node_details(node) ==
    IF node.details # NoKey THEN node.details ELSE "No details provided"

\* variant: the details are left out of the line
stack_line_label_only(node) == <<"- ", node_label(node)>>

stack_line(node) == <<"- ", node_label(node), ": ", node_details(node)>>

stack_list_items(nodes) == [i \in 1..Len(nodes) |-> stack_line(nodes[i])]

\* node_labels after the loop over nodes: a later node with the same id
\* replaces the label; a node without id adds nothing.
RECURSIVE node_labels(_)
node_labels(nodes) ==
    IF nodes = <<>> THEN << >>
    ELSE LET before == node_labels(SubSeq(nodes, 1, Len(nodes) - 1))
             node == nodes[Len(nodes)]
         IN  IF node.id # ""
             THEN [k \in DOMAIN before \cup {node.id} |->
                      IF k = node.id THEN node_label(node) ELSE before[k]]
             ELSE before

\* variant: an id without node falls back to a fixed text
label_or_unknown(labels, id) ==
    IF id \in DOMAIN labels THEN labels[id] ELSE "Unknown Component"

\* node_labels.get(id, id)
label_or_id(labels, id) == IF id \in DOMAIN labels THEN labels[id] ELSE id

edge_line(labels, edge) ==
    <<"- ", label_or_id(labels, edge.source), Arrow, label_or_id(labels, edge.target)>>

\* if source_id and target_id
edge_listed(edge) == edge.source # "" /\ edge.target # ""

RECURSIVE edge_list_items(_, _)
edge_list_items(labels, edges) ==
    IF edges = <<>> THEN << >>
    ELSE LET rest == edge_list_items(labels, Tail(edges))
         IN  IF edge_listed(Head(edges))
             THEN <<edge_line(labels, Head(edges))>> \o rest
             ELSE rest

\* str.find of a two-character text
Contains2(s, c1, c2) == \E i \in 1..(Len(s) - 1) : s[i] = c1 /\ s[i + 1] = c2

Contains1(s, c) == \E i \in 1..Len(s) : s[i] = c

Whitespace == {" ", "\n"}

\* str.strip
RECURSIVE lstrip(_)
lstrip(s) == IF s # <<>> /\ Head(s) \in Whitespace THEN lstrip(Tail(s)) ELSE s

RECURSIVE rstrip(_)
rstrip(s) ==
    IF s # <<>> /\ s[Len(s)] \in Whitespace THEN rstrip(SubSeq(s, 1, Len(s) - 1)) ELSE s

strip(s) == rstrip(lstrip(s))

\* str.splitlines (the only line boundary of the alphabet is "\n")
RECURSIVE splitlines(_)
splitlines(s) ==
    IF s = <<>> THEN << >>
    ELSE IF ~Contains1(s, "\n") THEN <<s>>
    ELSE LET i == find(s, "\n") + 1
         IN  <<SubSeq(s, 1, i - 1)>> \o splitlines(SubSeq(s, i + 1, Len(s)))

RECURSIVE bullet_lines(_)
bullet_lines(lines) ==
    IF lines = <<>> THEN << >>
    ELSE IF strip(Head(lines)) # <<>>
        THEN <<(<<"- ">> \o strip(Head(lines)))>> \o bullet_lines(Tail(lines))
        ELSE bullet_lines(Tail(lines))

DefaultContext == <<"No specific user requirements provided.">>

processed_context(user_context) ==
    LET text == IF user_context # <<>> THEN user_context ELSE DefaultContext
    IN  IF Contains1(text, "\n") \/ Contains2(text, "-", " ") \/ Contains2(text, "*", " ")
        THEN bullet_lines(splitlines(text))
        ELSE << <<"- ">> \o text >>

NoComponents == << <<"- No specific components defined.">> >>
NoRelationships == << <<"- No specific relationships defined.">> >>

\* the error string of the first check
InvalidGraphError ==
    << <<"# Error:", " Invalid graph data provided for prompt generation.">> >>

stack_list(nodes) ==
    IF stack_list_items(nodes) # <<>> THEN stack_list_items(nodes) ELSE NoComponents

edge_list(nodes, edges) ==
    IF edge_list_items(node_labels(nodes), edges) # <<>>
    THEN edge_list_items(node_labels(nodes), edges)
    ELSE NoRelationships

\* The template, one line per heading; the fixed paragraphs between the
\* headings are left out of the lines.
generate_llm_builder_prompt(graph_data, user_context) ==
    IF ~Truthy(graph_data) \/ ~HasKey(graph_data.nodes) \/ ~HasKey(graph_data.edges)
    THEN InvalidGraphError
    ELSE << <<"# Tech Stack Builder Instructions">>, <<"## Project Tech Stack">> >>
         \o stack_list(graph_data.nodes.items)
         \o << <<"## Architecture Overview">> >>
         \o edge_list(graph_data.nodes.items, graph_data.edges.items)
         \o << <<"## File Structure Overview">>, <<"## User Requirements and Goals">> >>
         \o processed_context(user_context)
         \o << <<"## Mission for AI">> >>

\* markdown_prompt.startswith("# Error:")
StartsWithError(text) == text # <<>> /\ text[1] # <<>> /\ text[1][1] = "# Error:"

\* variant: the endpoint refuses to work without the model, as its siblings do
api_generate_builder_prompt_handler_needs_model(model, req) ==
    IF ~req.is_json THEN Handled(Error(BadRequest, "Request must be JSON"), NotCalled, 0)
    ELSE IF ~Truthy(req.graph) THEN
        Handled(Error(BadRequest, "Missing 'graphData' in request body"), NotCalled, 0)
    ELSE IF ~IsList(req.graph.nodes) \/ ~IsList(req.graph.edges) THEN
        Handled(Error(BadRequest, "Invalid 'graphData' structure"), NotCalled, 0)
    ELSE IF ~model THEN
        Handled(Error(ServiceUnavailable, "Gemini API not configured on server."), NotCalled, 0)
    ELSE Handled(Success("markdownPrompt", generate_llm_builder_prompt(req.graph, req.context)),
                 NotCalled, 0)

api_generate_builder_prompt_handler(model, req) ==
    IF ~req.is_json THEN Handled(Error(BadRequest, "Request must be JSON"), NotCalled, 0)
    ELSE IF ~Truthy(req.graph) THEN
        Handled(Error(BadRequest, "Missing 'graphData' in request body"), NotCalled, 0)
    ELSE IF ~IsList(req.graph.nodes) \/ ~IsList(req.graph.edges) THEN
        Handled(Error(BadRequest, "Invalid 'graphData' structure"), NotCalled, 0)
    ELSE LET markdown_prompt == generate_llm_builder_prompt(req.graph, req.context)
         IN  IF StartsWithError(markdown_prompt)
             THEN Logged(Handled(Error(BadRequest, markdown_prompt), NotCalled, 0),
                         <<"LLM Builder prompt generation failed">>, FALSE)
             ELSE Handled(Success("markdownPrompt", markdown_prompt), NotCalled, 0)

(***************************************************************************)
(* generate_graph_explanation and its endpoint.  Texts other than graph    *)
(* responses are sequences of string pieces.                               *)
(***************************************************************************)
\* str(e) of the exception the model call raised
ExceptionText == "<exception text>"

ExplainModelOutcomes == {Raises, Blocked, Answers(<<"p">>)}

\* Results are [text, calls, log, text_read].
Explained(text, n, lines, read) ==
    [text |-> text, calls |-> n, log |-> lines, text_read |-> read]

generate_graph_explanation(model, graph_json, original_prompt, m) ==
    IF ~model
    THEN Explained(<<"Error: AI model not available to generate explanation.">>, 0,
                   <<"Gemini model not initialized. Cannot generate explanation.">>, FALSE)
    ELSE IF m.kind = "raise"
    THEN Explained(<<"Error generating explanation: ", ExceptionText>>, 1,
                   <<"Sending prompt to Gemini for graph explanation",
                     "Error during Gemini call for explanation">>, FALSE)
    ELSE IF m.kind = "blocked"
    THEN Explained(<<"AI explanation was blocked or empty.">>, 1,
                   <<"Sending prompt to Gemini for graph explanation",
                     "Warning: Gemini explanation response blocked or empty.">>, FALSE)
    ELSE Explained(m.text, 1,
                   <<"Sending prompt to Gemini for graph explanation",
                     "Received explanation text from Gemini.">>, TRUE)

\* variant: the endpoint leaves the model check to the helper
api_explain_graph_handler_unchecked(model, req, m) ==
    IF ~req.is_json THEN Handled(Error(BadRequest, "Request must be JSON"), NotCalled, 0)
    ELSE IF ~Truthy(req.graph) \/ ~HasKey(req.graph.nodes) \/ ~HasKey(req.graph.edges) THEN
        Handled(Error(BadRequest, "Invalid or missing graph data in request body"),
                NotCalled, 0)
    ELSE IF req.prompt = "" THEN
        Handled(Error(BadRequest, "Missing originalPrompt in request body"), NotCalled, 0)
    ELSE LET r == generate_graph_explanation(model, req.graph, req.prompt, m)
         IN  Logged(Handled(Success("explanation", r.text),
                            IF r.calls = 0 THEN NotCalled ELSE m, r.calls),
                    r.log, r.text_read)

api_explain_graph_handler(model, req, m) ==
    IF ~req.is_json THEN Handled(Error(BadRequest, "Request must be JSON"), NotCalled, 0)
    ELSE IF ~Truthy(req.graph) \/ ~HasKey(req.graph.nodes) \/ ~HasKey(req.graph.edges) THEN
        Handled(Error(BadRequest, "Invalid or missing graph data in request body"),
                NotCalled, 0)
    ELSE IF req.prompt = "" THEN
        Handled(Error(BadRequest, "Missing originalPrompt in request body"), NotCalled, 0)
    ELSE IF ~model THEN
        Handled(Error(ServiceUnavailable, "Gemini API not configured on server."), NotCalled, 0)
    ELSE LET r == generate_graph_explanation(model, req.graph, req.prompt, m)
         IN  Logged(Handled(Success("explanation", r.text),
                            IF r.calls = 0 THEN NotCalled ELSE m, r.calls),
                    r.log, r.text_read)

(***************************************************************************)
(* generate_repo_builder_script_with_gemini (repo_builder.py) and its      *)
(* endpoint.  A script text is a sequence of tokens:                       *)
(*   "#!/bin/bash"  the script-start marker                                *)
(*   "<fence>bash"  the opening fence, three backticks and "bash"          *)
(*   "<fence>"      the closing fence, three backticks                     *)
(*   " "            a run of whitespace                                    *)
(*   "s"            any other run of script text                           *)
(***************************************************************************)
ScriptToken == {"#!/bin/bash", "<fence>bash", "<fence>", " ", "s"}

ScriptTexts == SeqsUpTo(ScriptToken, MaxScript)

ScriptModelOutcomes == {Raises, Blocked} \cup {Answers(t) : t \in ScriptTexts}

startswith(s, prefix) == s # <<>> /\ s[1] = prefix

endswith(s, suffix) == s # <<>> /\ s[Len(s)] = suffix

warning_msg ==
    <<"# Warning:", " Gemini output did not start with #!/bin/bash. Returning raw output, review before execution.">>

\* variant: fence markers are removed for as long as the text starts with one
RECURSIVE unfenced_repeatedly(_)
unfenced_repeatedly(bash_script) ==
    IF startswith(bash_script, "<fence>bash")
    THEN LET opened == strip(Tail(bash_script))
         IN  IF endswith(opened, "<fence>")
             THEN unfenced_repeatedly(strip(SubSeq(opened, 1, Len(opened) - 1)))
             ELSE unfenced_repeatedly(opened)
    ELSE bash_script

\* the text after the fence markers were removed
unfenced(bash_script) ==
    IF startswith(bash_script, "<fence>bash")
    THEN LET opened == strip(Tail(bash_script))
         IN  IF endswith(opened, "<fence>")
             THEN strip(SubSeq(opened, 1, Len(opened) - 1))
             ELSE opened
    ELSE bash_script

\* the processing of response.text
script_from_text(text) ==
    LET bash_script == strip(text)
    IN  IF ~startswith(bash_script, "#!/bin/bash")
        THEN IF ~startswith(unfenced(bash_script), "#!/bin/bash")
             THEN warning_msg \o <<"\n">> \o unfenced(bash_script)
             ELSE unfenced(bash_script)
        ELSE bash_script

\* Results are [text, calls, log, text_read].
generate_repo_builder_script_with_gemini(graph_data, user_context, model, m) ==
    IF ~model
    THEN Explained(<<"# Error:", " Gemini model not available.">>, 0,
                   <<"Error: Gemini model instance not provided to generate_repo_builder_script_with_gemini.">>,
                   FALSE)
    ELSE IF ~Truthy(graph_data) \/ ~HasKey(graph_data.nodes)
    THEN Explained(<<"# Error:", " Invalid graph data provided for script generation.">>,
                   0, <<>>, FALSE)
    ELSE IF m.kind = "raise"
    THEN Explained(<<"# Error generating Bash script via Gemini: ", ExceptionText>>, 1,
                   <<"Sending prompt to Gemini for Bash script generation",
                     "Error during Gemini call for Bash script generation">>, FALSE)
    ELSE IF m.kind = "blocked"
    THEN Explained(<<"# Error:", " Gemini response was blocked or empty for bash script generation.">>,
                   1,
                   <<"Sending prompt to Gemini for Bash script generation",
                     "Warning: # Error: Gemini response was blocked or empty for bash script generation.">>,
                   FALSE)
    ELSE LET script == script_from_text(m.text)
         IN  Explained(script, 1,
                       <<"Sending prompt to Gemini for Bash script generation">>
                           \o (IF startswith(script, "# Warning:")
                               THEN <<"# Warning: Gemini output did not start with #!/bin/bash. Returning raw output, review before execution.">>
                               ELSE <<"Received Bash script from Gemini.">>),
                       TRUE)

\* variant: model availability is decided before the graph data is looked at
api_generate_repo_script_handler_model_first(model, req, m) ==
    IF ~req.is_json THEN Handled(Error(BadRequest, "Request must be JSON"), NotCalled, 0)
    ELSE IF ~model THEN
        Handled(Error(ServiceUnavailable, "Gemini API model not configured on server."),
                NotCalled, 0)
    ELSE IF ~Truthy(req.graph) THEN
        Handled(Error(BadRequest, "Missing 'graphData' in request body"), NotCalled, 0)
    ELSE IF ~IsList(req.graph.nodes) THEN
        Handled(Error(BadRequest, "Invalid 'graphData' structure: 'nodes' must be a list."),
                NotCalled, 0)
    ELSE LET r == generate_repo_builder_script_with_gemini(req.graph, req.context, model, m)
             out == IF r.calls = 0 THEN NotCalled ELSE m
         IN  IF startswith(r.text, "# Error:") \/ startswith(r.text, "# Warning:")
             THEN Logged(Handled(Error(InternalError, r.text), out, r.calls),
                         r.log \o <<"Repo script generation failed or has warnings">>,
                         r.text_read)
             ELSE Logged(Handled(Success("bashScript", r.text), out, r.calls),
                         r.log, r.text_read)

api_generate_repo_script_handler(model, req, m) ==
    IF ~req.is_json THEN Handled(Error(BadRequest, "Request must be JSON"), NotCalled, 0)
    ELSE IF ~Truthy(req.graph) THEN
        Handled(Error(BadRequest, "Missing 'graphData' in request body"), NotCalled, 0)
    ELSE IF ~IsList(req.graph.nodes) THEN
        Handled(Error(BadRequest, "Invalid 'graphData' structure: 'nodes' must be a list."),
                NotCalled, 0)
    ELSE IF ~model THEN
        Handled(Error(ServiceUnavailable, "Gemini API model not configured on server."),
                NotCalled, 0)
    ELSE LET r == generate_repo_builder_script_with_gemini(req.graph, req.context, model, m)
             out == IF r.calls = 0 THEN NotCalled ELSE m
         IN  IF startswith(r.text, "# Error:") \/ startswith(r.text, "# Warning:")
             THEN Logged(Handled(Error(InternalError, r.text), out, r.calls),
                         r.log \o <<"Repo script generation failed or has warnings">>,
                         r.text_read)
             ELSE Logged(Handled(Success("bashScript", r.text), out, r.calls),
                         r.log, r.text_read)

(***************************************************************************)
(* Inputs.                                                                 *)
(***************************************************************************)
Prompts == {"", "a simple blog with comments"}

Node(id, label, details) == [id |-> id, label |-> label, details |-> details]
Edge(source, target) == [source |-> source, target |-> target]

\* the nodes a submitted graph is built from: two labelled nodes, a second
\* node with id "a", a node without label and details, a node without id
NodeChoices ==
    { Node("a", "React", "18.x"), Node("b", "API", "REST"), Node("a", "Vue", NoKey),
      Node("b", NoKey, NoKey), Node("", NoKey, "x") }

\* an edge end is missing/empty or names node "a" or "b"
EdgeEnds == {"", "a", "b"}

EdgeChoices == {Edge(s, t) : s \in EdgeEnds, t \in EdgeEnds}

Graphs ==
    { Dict(List(ns), List(es)) :
        ns \in SeqsUpTo(NodeChoices, MaxNodes), es \in SeqsUpTo(EdgeChoices, MaxEdges) }

\* the graph of the spec's builder scenario
ScenarioGraph ==
    Dict(List(<<Node("a", "React", "18.x"), Node("b", "API", "REST")>>),
         List(<<Edge("a", "b")>>))

\* graph values that are no well-shaped graph
OddGraphs ==
    { AbsentGraph, Dict(Missing, Missing),
      Dict(List(<<Node("a", "React", "18.x")>>), Missing),
      Dict(List(<<Node("a", "React", "18.x")>>), NotAList),
      Dict(NotAList, List(<<>>)),
      Dict(Missing, List(<<>>)) }

CtxChar == {"a", " ", "\n", "-"}

Contexts == SeqsUpTo(CtxChar, MaxCtx)

\* the context "needs login", one run of characters
NeedsLogin == <<"needs login">>

ExistingGraphs ==
    { AbsentGraph, ArrayValue, Dict(Missing, Missing), Dict(NotAList, List(<<>>)),
      Dict(List(<<>>), List(<<>>)), ScenarioGraph }

\* Inputs of the generate-graph endpoint: every request shape with a few
\* model outcomes; a request without existing graph with every model
\* outcome; a request with an existing graph with the shorter ones.
GenerateRequests ==
    { Request("generate-graph", j, p, g, <<>>) :
        j \in BOOLEAN, p \in Prompts, g \in ExistingGraphs }

FewGraphModelOutcomes == {Raises, Blocked, Answers(<<"{", "g", "}">>)}

FreshRequest ==
    Request("generate-graph", TRUE, "a simple blog with comments", AbsentGraph, <<>>)

ModifyRequest ==
    Request("generate-graph", TRUE, "a simple blog with comments", ScenarioGraph, <<>>)

\* Inputs of the build-agent-prompt endpoint: every graph with two
\* contexts, and two graphs with every context.
BuilderRequests ==
    { Request("generate-builder-prompt", j, "", g, c) :
        j \in BOOLEAN, g \in Graphs \cup OddGraphs, c \in {<<>>, NeedsLogin} }

BuilderContextRequests ==
    { Request("generate-builder-prompt", TRUE, "", g, c) :
        g \in {ScenarioGraph, Dict(List(<<>>), List(<<>>))}, c \in Contexts }

\* graph values submitted to explain and build-repo-script
SubmittedGraphs == OddGraphs \cup {ScenarioGraph, Dict(List(<<>>), List(<<>>))}

ExplainRequests ==
    { Request("explain-graph", j, p, g, <<>>) :
        j \in BOOLEAN, p \in Prompts, g \in SubmittedGraphs }

\* Inputs of the build-repo-script endpoint: every request shape with a few
\* model outcomes, and one request with every model outcome.
RepoScriptRequests ==
    { Request("generate-repo-script", j, "", g, c) :
        j \in BOOLEAN, g \in SubmittedGraphs, c \in {<<>>, NeedsLogin} }

FewScriptModelOutcomes == {Raises, Blocked, Answers(<<"#!/bin/bash", "s">>)}

ScriptRequest == Request("generate-repo-script", TRUE, "", ScenarioGraph, NeedsLogin)

(***************************************************************************)
(* The graph object a caller submitted, after the helper it was passed to  *)
(* returned.  Python passes the dict by reference, so a helper could       *)
(* change it; each helper only reads it.                                   *)
(***************************************************************************)
\* variant: the fallback is patched into the existing graph (its first node
\* is dropped in place)
modify_or_replace_graph_arg_patched(existing_graph_json) ==
    [existing_graph_json EXCEPT !.nodes = List(Tail(existing_graph_json.nodes.items))]

\* existing_graph_json is serialized for the prompt (json.dumps) and not
\* used again
modify_or_replace_graph_arg(existing_graph_json) == existing_graph_json

\* graph_json is serialized for the prompt (json.dumps) and not used again
generate_graph_explanation_arg(graph_json) == graph_json

\* graph_data is read with 'in' and .get, its nodes and edges with .get
generate_llm_builder_prompt_arg(graph_data) == graph_data

\* graph_data is read with 'in' and serialized for the prompt (json.dumps)
generate_repo_builder_script_arg(graph_data) == graph_data

\* The submitted graph after the handler with result h returned: it went
\* through the helper the handler passed it to, if the handler got there.
graph_after_request(req, h) ==
    CASE req.op = "generate-graph" ->
            IF \E i \in 1..Len(h.log) : h.log[i] = "Calling modify_or_replace_graph..."
            THEN modify_or_replace_graph_arg(req.graph)
            ELSE req.graph
      [] req.op = "explain-graph" ->
            IF h.response.key = "explanation"
            THEN generate_graph_explanation_arg(req.graph)
            ELSE req.graph
      [] req.op = "generate-builder-prompt" ->
            IF h.response.key = "markdownPrompt" \/ h.log # <<>>
            THEN generate_llm_builder_prompt_arg(req.graph)
            ELSE req.graph
      [] req.op = "generate-repo-script" ->
            IF h.response.status \notin {BadRequest, ServiceUnavailable}
            THEN generate_repo_builder_script_arg(req.graph)
            ELSE req.graph
      [] OTHER -> req.graph

(***************************************************************************)
(* The worker threads of the server.  A thread is idle or handles one      *)
(* request: its pc says how far the handler got, model is the value of     *)
(* gemini_model the handler read, out what the external model did.         *)
(***************************************************************************)
Workers == 1..MaxWorkers

Thread(pc, req, model, out, resp) ==
    [pc |-> pc, req |-> req, model |-> model, out |-> out, response |-> resp]

IdleThread == Thread("idle", NoRequest, FALSE, NotCalled, NoResponse)

\* No helper call is recorded.
NothingReturned ==
    [helper |-> "none", graph |-> GraphObj(Missing, Missing, FALSE, FALSE, <<>>)]

(***************************************************************************)
(* The state machine.                                                      *)
(***************************************************************************)
Init ==
    /\ gemini_model \in BOOLEAN
    /\ request = NoRequest
    /\ modelOut = NotCalled
    /\ calls = 0
    /\ log = <<>>
    /\ text_read = FALSE
    /\ response = NoResponse
    /\ threads = [t \in Workers |-> IdleThread]
    /\ graph_after = AbsentGraph
    /\ returned = NothingReturned

\* No request is recorded: the next one can be handled.
Idle == request = NoRequest

Serve(req, h) ==
    /\ request' = req
    /\ response' = h.response
    /\ modelOut' = h.out
    /\ calls' = h.calls
    /\ log' = h.log
    /\ text_read' = h.text_read
    /\ graph_after' = graph_after_request(req, h)
    /\ UNCHANGED <<gemini_model, threads, returned>>

api_generate_graph ==
    /\ Idle
    /\ \/ \E req \in GenerateRequests, m \in FewGraphModelOutcomes :
              Serve(req, api_generate_graph_handler(gemini_model, req, m))
       \/ \E m \in GraphModelOutcomes :
              Serve(FreshRequest, api_generate_graph_handler(gemini_model, FreshRequest, m))
       \/ \E m \in ShortGraphModelOutcomes :
              Serve(ModifyRequest, api_generate_graph_handler(gemini_model, ModifyRequest, m))

api_generate_builder_prompt ==
    /\ Idle
    /\ \E req \in BuilderRequests \cup BuilderContextRequests :
            Serve(req, api_generate_builder_prompt_handler(gemini_model, req))

api_explain_graph ==
    /\ Idle
    /\ \E req \in ExplainRequests, m \in ExplainModelOutcomes :
            Serve(req, api_explain_graph_handler(gemini_model, req, m))

api_generate_repo_script ==
    /\ Idle
    /\ \/ \E req \in RepoScriptRequests, m \in FewScriptModelOutcomes :
              Serve(req, api_generate_repo_script_handler(gemini_model, req, m))
       \/ \E m \in ScriptModelOutcomes :
              Serve(ScriptRequest, api_generate_repo_script_handler(gemini_model, ScriptRequest, m))

\* The response has been sent: the request's values are discarded (nothing
\* is kept between requests but the model handle).
Discard ==
    /\ ~Idle
    /\ request' = NoRequest
    /\ modelOut' = NotCalled
    /\ calls' = 0
    /\ log' = <<>>
    /\ text_read' = FALSE
    /\ response' = NoResponse
    /\ graph_after' = AbsentGraph
    /\ UNCHANGED <<gemini_model, threads, returned>>

Next ==
    \/ api_generate_graph
    \/ api_explain_graph
    \/ api_generate_builder_prompt
    \/ api_generate_repo_script
    \/ Discard

Spec == Init /\ [][Next]_vars

(***************************************************************************)
(* Concurrent requests.  The server handles each request on a thread of    *)
(* its own; the steps of the handlers interleave.  A handler reads the     *)
(* module global gemini_model when it checks it; no handler assigns it     *)
(* (no function of app.py declares it global).                             *)
(***************************************************************************)
\* the requests the threads handle: one well-formed request per endpoint
\* and one without prompt
ExplainRequest ==
    Request("explain-graph", TRUE, "a simple blog with comments", ScenarioGraph, <<>>)

BuilderRequest ==
    Request("generate-builder-prompt", TRUE, "", ScenarioGraph, NeedsLogin)

ConcRequests ==
    { FreshRequest, ModifyRequest, ExplainRequest, BuilderRequest, ScriptRequest,
      Request("generate-graph", TRUE, "", AbsentGraph, <<>>) }

\* what the external model can do for a request of the operation
OutcomesFor(op) ==
    CASE op = "generate-graph" -> FewGraphModelOutcomes
      [] op = "explain-graph" -> ExplainModelOutcomes
      [] op = "generate-repo-script" -> FewScriptModelOutcomes
      [] OTHER -> {NotCalled}

\* the route table: the handler of the request's endpoint
Route(model, req, m) ==
    CASE req.op = "generate-graph" -> api_generate_graph_handler(model, req, m)
      [] req.op = "explain-graph" -> api_explain_graph_handler(model, req, m)
      [] req.op = "generate-repo-script" -> api_generate_repo_script_handler(model, req, m)
      [] OTHER -> api_generate_builder_prompt_handler(model, req)

\* variant: a handler that finds no model initializes one for later requests
handle_after_check_reinitialized(handle) == TRUE

\* the module global after a handler evaluated "if not gemini_model"
handle_after_check(handle) == handle

ConcInit ==
    /\ gemini_model \in BOOLEAN
    /\ request = NoRequest
    /\ modelOut = NotCalled
    /\ calls = 0
    /\ log = <<>>
    /\ text_read = FALSE
    /\ response = NoResponse
    /\ threads = [t \in Workers |-> IdleThread]
    /\ graph_after = AbsentGraph
    /\ returned = NothingReturned

Unserved ==
    <<request, modelOut, calls, log, text_read, response, graph_after, returned>>

\* a request arrives and is given to thread t
Receive(t) ==
    /\ threads[t].pc = "idle"
    /\ \E req \in ConcRequests :
           threads' = [threads EXCEPT ![t] =
                          Thread("received", req, FALSE, NotCalled, NoResponse)]
    /\ UNCHANGED <<gemini_model, Unserved>>

\* the handler validates the request and reads gemini_model; it goes on to
\* the model call or straight to its response
Check(t) ==
    /\ threads[t].pc = "received"
    /\ LET seen == gemini_model
           calling == Route(seen, threads[t].req, Raises).calls > 0
       IN  threads' = [threads EXCEPT ![t].model = seen,
                                      ![t].pc = IF calling THEN "call" ELSE "respond"]
    /\ gemini_model' = handle_after_check(gemini_model)
    /\ UNCHANGED Unserved

\* the model call of the handler returns
Call(t) ==
    /\ threads[t].pc = "call"
    /\ \E m \in OutcomesFor(threads[t].req.op) :
           threads' = [threads EXCEPT ![t].out = m, ![t].pc = "respond"]
    /\ UNCHANGED <<gemini_model, Unserved>>

\* the handler builds its response
Respond(t) ==
    /\ threads[t].pc = "respond"
    /\ threads' = [threads EXCEPT
                       ![t].response =
                           Route(threads[t].model, threads[t].req, threads[t].out).response,
                       ![t].pc = "done"]
    /\ UNCHANGED <<gemini_model, Unserved>>

\* the response is sent and the thread is free again
Finish(t) ==
    /\ threads[t].pc = "done"
    /\ threads' = [threads EXCEPT ![t] = IdleThread]
    /\ UNCHANGED <<gemini_model, Unserved>>

ConcNext ==
    \E t \in Workers :
        \/ Receive(t)
        \/ Check(t)
        \/ Call(t)
        \/ Respond(t)
        \/ Finish(t)

ConcSpec == ConcInit /\ [][ConcNext]_vars

(***************************************************************************)
(* The two graph helpers called directly, whatever the model handle is and *)
(* whatever the external model does.                                       *)
(***************************************************************************)
HelperInit ==
    /\ gemini_model \in BOOLEAN
    /\ request = NoRequest
    /\ modelOut = NotCalled
    /\ calls = 0
    /\ log = <<>>
    /\ text_read = FALSE
    /\ response = NoResponse
    /\ threads = [t \in Workers |-> IdleThread]
    /\ graph_after = AbsentGraph
    /\ returned = NothingReturned

\* the helper returned r after the external model did m
Return(helper, r, m) ==
    /\ returned' = [helper |-> helper, graph |-> r.graph]
    /\ modelOut' = IF r.calls = 0 THEN NotCalled ELSE m
    /\ calls' = r.calls
    /\ log' = r.log
    /\ text_read' = r.text_read
    /\ UNCHANGED <<gemini_model, request, response, threads, graph_after>>

call_generate_graph_from_scratch ==
    /\ returned = NothingReturned
    /\ \E m \in GraphModelOutcomes :
           Return("generate_graph_from_scratch",
                  generate_graph_from_scratch(gemini_model, FreshRequest.prompt, m), m)

call_modify_or_replace_graph ==
    /\ returned = NothingReturned
    /\ \E m \in ShortGraphModelOutcomes :
           Return("modify_or_replace_graph",
                  modify_or_replace_graph(gemini_model, ScenarioGraph,
                                          ModifyRequest.prompt, m), m)

\* the caller is done with the value
Forget ==
    /\ returned # NothingReturned
    /\ returned' = NothingReturned
    /\ modelOut' = NotCalled
    /\ calls' = 0
    /\ log' = <<>>
    /\ text_read' = FALSE
    /\ UNCHANGED <<gemini_model, request, response, threads, graph_after>>

HelperNext ==
    \/ call_generate_graph_from_scratch
    \/ call_modify_or_replace_graph
    \/ Forget

HelperSpec == HelperInit /\ [][HelperNext]_vars

(***************************************************************************)
(* Properties.  Helpers of the statements first: they are written from the *)
(* statements, not from the operators above, so that a statement compares  *)
(* what a handler did with what the statement expects.                     *)
(***************************************************************************)
\* the request reached the dispatch of the generate-graph endpoint
GenerateServed ==
    request.op = "generate-graph" /\ request.is_json /\ request.prompt # ""

\* the response carries the Mock Graph: the three nodes in the order
\* frontend, backend, database and the two edges joining them in a line
IsMockPayload(resp) ==
    /\ resp.status = OK
    /\ resp.key = "graph"
    /\ resp.body.nodes.kind = "list"
    /\ resp.body.edges.kind = "list"
    /\ LET ns == resp.body.nodes.items
           es == resp.body.edges.items
       IN  /\ Len(ns) = 3
           /\ Len(es) = 2
           /\ <<ns[1].type, ns[2].type, ns[3].type>> = <<"frontend", "backend", "database">>
           /\ <<es[1].source, es[1].target>> = <<ns[1].id, ns[2].id>>
           /\ <<es[2].source, es[2].target>> = <<ns[2].id, ns[3].id>>
           /\ ns = mock_nodes
           /\ es = mock_edges

\* C1: with the model client absent, a generate-or-modify-graph request with
\* a non-empty prompt and no existing graph is answered with the exact Mock
\* Graph (3 nodes frontend/backend/database, 2 edges in a line between them).
C1_MockGraphWhenModelAbsent ==
    (GenerateServed /\ ~gemini_model /\ request.graph = AbsentGraph)
        => IsMockPayload(response)

\* C2: the payload of the generate-graph endpoint carries no synthetic
\* marker, and its nodes and edges are those of the graph the pipeline handed
\* over (the tagged Mock Graph or the model's graph) before the marker was
\* stripped.
C2_MarkerStripped ==
    (GenerateServed /\ response.key = "graph")
        => LET handed == GraphFromModel(modelOut, generate_lines).graph
           IN  /\ response.body.mocked = FALSE
               /\ response.body.nodes = handed.nodes
               /\ response.body.edges = handed.edges

\* the tagged Mock Graph was handed over and reached the caller untagged
C2_Witness ==
    /\ GenerateServed
    /\ response.key = "graph"
    /\ GraphFromModel(modelOut, generate_lines).graph.mocked
    /\ IsMockPayload(response)
    /\ ~response.body.mocked

\* a build-agent-prompt request with a graph whose nodes and edges are lists
BuilderServed ==
    /\ request.op = "generate-builder-prompt"
    /\ request.is_json
    /\ request.graph.kind = "dict"
    /\ request.graph.nodes.kind = "list"
    /\ request.graph.edges.kind = "list"

ItemsOf(seq) == {seq[i] : i \in 1..Len(seq)}

\* an id resolves when it is non-empty and some node carries it
Resolves(nodes, id) == id # "" /\ \E n \in ItemsOf(nodes) : n.id = id

\* what a line shows for a node: its label, else its id, else a fixed text
ShownLabel(n) ==
    IF n.label # NoKey THEN n.label ELSE IF n.id # "" THEN n.id ELSE "Unknown Component"

ShownDetails(n) == IF n.details # NoKey THEN n.details ELSE "No details provided"

\* what an edge line may show for an end: the label of a node with that id,
\* or the id itself when no node has it
ShownEnds(nodes, id) ==
    IF Resolves(nodes, id)
    THEN {ShownLabel(n) : n \in {x \in ItemsOf(nodes) : x.id = id}}
    ELSE {id}

EdgeLines(nodes, e) ==
    {<<"- ", a, Arrow, b>> : a \in ShownEnds(nodes, e.source), b \in ShownEnds(nodes, e.target)}

\* both ends are non-empty ids and at least one matches no node
Dangling(nodes, e) ==
    /\ e.source # ""
    /\ e.target # ""
    /\ ~Resolves(nodes, e.source) \/ ~Resolves(nodes, e.target)

\* the lines of a Markdown text between two of its heading lines
Between(text, h1, h2) ==
    LET a == CHOOSE i \in 1..Len(text) : text[i] = <<h1>>
        b == CHOOSE i \in 1..Len(text) : text[i] = <<h2>>
    IN  SubSeq(text, a + 1, b - 1)

StackSection(text) == Between(text, "## Project Tech Stack", "## Architecture Overview")
ArchSection(text) == Between(text, "## Architecture Overview", "## File Structure Overview")
ContextSection(text) == Between(text, "## User Requirements and Goals", "## Mission for AI")

\* C3 (as stated): a build-agent-prompt call with an edge whose source or
\* target is a non-empty id matching no node id succeeds, and the
\* architecture list has no line for that edge.
C3_DanglingEdgeOmitted ==
    BuilderServed =>
        /\ response.status = OK
        /\ response.key = "markdownPrompt"
        /\ \A e \in ItemsOf(request.graph.edges.items) :
              Dangling(request.graph.nodes.items, e)
                  => EdgeLines(request.graph.nodes.items, e)
                         \cap ItemsOf(ArchSection(response.body)) = {}

\* C3 (amended): the call succeeds and the architecture list has one line
\* per edge whose source and target are both non-empty, in input order; an
\* end that matches no node is shown by its id.  Only edges with a missing
\* or empty end have no line.
C3_DanglingEdgeShownById ==
    BuilderServed =>
        /\ response.status = OK
        /\ response.key = "markdownPrompt"
        /\ LET nodes == request.graph.nodes.items
               HasEnds(e) == e.source # "" /\ e.target # ""
               listed == SelectSeq(request.graph.edges.items, HasEnds)
               section == ArchSection(response.body)
           IN  IF listed = <<>>
               THEN section = << <<"- No specific relationships defined.">> >>
               ELSE /\ Len(section) = Len(listed)
                    /\ \A k \in 1..Len(listed) : section[k] \in EdgeLines(nodes, listed[k])

\* a served graph has an edge to an id without node, and its line is there
C3_Witness ==
    /\ BuilderServed
    /\ response.status = OK
    /\ \E e \in ItemsOf(request.graph.edges.items) :
          /\ Dangling(request.graph.nodes.items, e)
          /\ EdgeLines(request.graph.nodes.items, e)
                 \cap ItemsOf(ArchSection(response.body)) # {}

\* a graph helper called the model and the model answered with text
GraphOpAnswered == GenerateServed /\ modelOut.kind = "text"

\* 1-based index of the first / last c in s, 0 when there is none
FirstIndex(s, c) ==
    IF \E i \in 1..Len(s) : s[i] = c
    THEN CHOOSE i \in 1..Len(s) : s[i] = c /\ \A j \in 1..(i - 1) : s[j] # c
    ELSE 0

LastIndex(s, c) ==
    IF \E i \in 1..Len(s) : s[i] = c
    THEN CHOOSE i \in 1..Len(s) : s[i] = c /\ \A j \in (i + 1)..Len(s) : s[j] # c
    ELSE 0

\* the places <<i, j>> where text holds a well-formed (strict) JSON object
Occurrences(text) ==
    {o \in (1..Len(text)) \X (1..Len(text)) :
        o[1] < o[2] /\ ParseDocument(SubSeq(text, o[1], o[2]), FALSE).ok}

\* those that are not part of a larger one
Outermost(text) ==
    {o \in Occurrences(text) :
        ~\E q \in Occurrences(text) : q # o /\ q[1] <= o[1] /\ o[2] <= q[2]}

ObjectAt(text, o) == ParseDocument(SubSeq(text, o[1], o[2]), FALSE).val

\* what a graph operation answers when extraction yields obj
AnswerFor(obj, resp) ==
    IF obj.nodes.kind = "list" /\ obj.edges.kind = "list"
    THEN resp = Success("graph", obj)
    ELSE IsMockPayload(resp)

\* C4 (as stated): when the model's text contains exactly one well-formed
\* JSON object, wherever it sits and whatever surrounds it, extraction
\* succeeds and yields that object.
C4_ExtractsTheOneObject ==
    (GraphOpAnswered /\ Cardinality(Outermost(modelOut.text)) = 1)
        => LET o == CHOOSE q \in Outermost(modelOut.text) : TRUE
               got == ExtractJson(modelOut.text)
           IN  /\ got.ok
               /\ got.val = ObjectAt(modelOut.text, o)
               /\ AnswerFor(ObjectAt(modelOut.text, o), response)

\* no "{" before the object and no "}" after it
BracesOutsideFree(text, o) ==
    /\ \A i \in 1..(o[1] - 1) : text[i] # "{"
    /\ \A i \in (o[2] + 1)..Len(text) : text[i] # "}"

\* C4 (amended): when the model's text contains exactly one well-formed JSON
\* object and the surrounding text has no "{" before it and no "}" after it,
\* extraction succeeds and yields that object.
C4_ExtractsWhenNoStrayBrace ==
    (GraphOpAnswered /\ Cardinality(Outermost(modelOut.text)) = 1)
        => LET o == CHOOSE q \in Outermost(modelOut.text) : TRUE
               got == ExtractJson(modelOut.text)
           IN  BracesOutsideFree(modelOut.text, o)
                   => /\ got.ok
                      /\ got.val = ObjectAt(modelOut.text, o)
                      /\ AnswerFor(ObjectAt(modelOut.text, o), response)

\* the one object, with text before and after it, was answered as the graph
C4_Witness ==
    /\ GraphOpAnswered
    /\ Cardinality(Outermost(modelOut.text)) = 1
    /\ LET o == CHOOSE q \in Outermost(modelOut.text) : TRUE
       IN  /\ BracesOutsideFree(modelOut.text, o)
           /\ o[1] > 1
           /\ o[2] < Len(modelOut.text)
           /\ response = Success("graph", ObjectAt(modelOut.text, o))

\* the slice from the first "{" to the last "}" (empty when they cross)
BraceSlice(text) == SubSeq(text, FirstIndex(text, "{"), LastIndex(text, "}"))

NoBracePair(text) ==
    \/ FirstIndex(text, "{") = 0
    \/ LastIndex(text, "}") = 0
    \/ FirstIndex(text, "{") > LastIndex(text, "}")

\* C5 (as stated): a text with no "{", or no "}", or whose first "{" comes
\* after its last "}", or whose slice is not strictly valid JSON, makes the
\* graph operation answer the Mock Graph.
C5_MockUnlessStrictJson ==
    (GraphOpAnswered
        /\ (NoBracePair(modelOut.text) \/ ~ParseDocument(BraceSlice(modelOut.text), FALSE).ok))
        => IsMockPayload(response)

\* C5 (amended): a text with no "{", or no "}", or whose first "{" comes
\* after its last "}", or whose slice json.loads rejects (json.loads takes
\* strict JSON and, beyond it, the literals NaN, Infinity and -Infinity),
\* makes the graph operation answer the Mock Graph.
C5_MockUnlessParsed ==
    (GraphOpAnswered
        /\ (NoBracePair(modelOut.text) \/ ~ParseDocument(BraceSlice(modelOut.text), TRUE).ok))
        => IsMockPayload(response)

\* a brace pair with a malformed interior led to the Mock Graph
C5_Witness ==
    /\ GraphOpAnswered
    /\ ~NoBracePair(modelOut.text)
    /\ ~ParseDocument(BraceSlice(modelOut.text), TRUE).ok
    /\ IsMockPayload(response)

\* an object with nodes present whose edges are missing or no list
LacksEdges(nodes, edges) == nodes.kind # "missing" /\ edges.kind # "list"

\* C6: an object with `nodes` present but `edges` missing or not a sequence
\* is rejected wherever a graph is validated: a model result leads to the
\* Mock Graph, a graph submitted to explain, build-agent-prompt or
\* build-repo-script leads to a client-error response.
C6_EdgesRequiredEverywhere ==
    /\ (GraphOpAnswered /\ ExtractJson(modelOut.text).ok
            /\ LacksEdges(ExtractJson(modelOut.text).val.nodes,
                          ExtractJson(modelOut.text).val.edges))
           => IsMockPayload(response)
    /\ (request.op \in {"explain-graph", "generate-builder-prompt", "generate-repo-script"}
            /\ request.is_json
            /\ request.graph.kind = "dict"
            /\ LacksEdges(request.graph.nodes, request.graph.edges))
           => response.status = BadRequest

\* the empty graph object between runs of prose, nothing else
WrappedEmptyGraph(text) ==
    \E i \in 2..(Len(text) - 3) :
        /\ SubSeq(text, i, i + 2) = <<"{", "g", "}">>
        /\ \A j \in (1..Len(text)) \ (i..(i + 2)) : text[j] = "p"

\* C7: with the model configured, a generate call whose model text wraps
\* {"nodes":[],"edges":[]} in prose and a code fence returns the empty Graph,
\* not the Mock Graph.
C7_EmptyGraphIsNoFallback ==
    (GenerateServed /\ request.graph = AbsentGraph /\ gemini_model
        /\ modelOut.kind = "text" /\ WrappedEmptyGraph(modelOut.text))
        => /\ response.status = OK
           /\ response.key = "graph"
           /\ response.body.nodes = List(<<>>)
           /\ response.body.edges = List(<<>>)
           /\ ~IsMockPayload(response)

C7_Witness ==
    /\ GenerateServed
    /\ request.graph = AbsentGraph
    /\ modelOut = Answers(<<"p", "p", "{", "g", "}", "p">>)
    /\ response.status = OK
    /\ response.body.nodes = List(<<>>)
    /\ response.body.edges = List(<<>>)

\* C8: build-agent-prompt involves no model: the model is never called, the
\* answer is the Markdown determined by the graph and the context alone, and
\* the call succeeds whether or not the model client is configured.
C8_BuilderPromptNeedsNoModel ==
    request.op = "generate-builder-prompt" =>
        /\ calls = 0
        /\ modelOut = NotCalled
        /\ BuilderServed =>
              response =
                  Success("markdownPrompt",
                          generate_llm_builder_prompt(request.graph, request.context))

\* the Markdown was built while the model client was absent
C8_Witness ==
    /\ BuilderServed
    /\ ~gemini_model
    /\ response.status = OK
    /\ response.key = "markdownPrompt"
    /\ request.graph.nodes.items # <<>>

\* the lines of a context: the runs between its line breaks
LineStarts(c) == {1} \cup {i + 1 : i \in {j \in 1..Len(c) : c[j] = "\n"}}

LineAt(c, a) ==
    LET ends == {j \in a..Len(c) : c[j] = "\n"}
    IN  SubSeq(c, a, IF ends = {} THEN Len(c) ELSE (CHOOSE j \in ends : \A k \in ends : j <= k) - 1)

Blank(line) == \A i \in 1..Len(line) : line[i] \in {" ", "\n"}

\* a line without the blanks around it
Trimmed(line) ==
    LET inked == {i \in 1..Len(line) : line[i] \notin {" ", "\n"}}
    IN  SubSeq(line, CHOOSE i \in inked : \A k \in inked : i <= k,
                     CHOOSE i \in inked : \A k \in inked : i >= k)

\* the starts of the non-blank lines, and the k-th of them
InkedStarts(c) == {a \in LineStarts(c) : a <= Len(c) /\ ~Blank(LineAt(c, a))}

KthStart(c, k) ==
    CHOOSE a \in InkedStarts(c) : Cardinality({b \in InkedStarts(c) : b < a}) = k - 1

\* C9: the Markdown of build-agent-prompt has one line "- <label>: <details>"
\* per node in input order, one line "- <source label> -> <target label>"
\* per edge whose ends both resolve to nodes, and the user context as bullet
\* lines starting with "- ": a single-line context as one bullet, a
\* multi-line context as one bullet per non-blank line.
C9_MarkdownLists ==
    BuilderServed =>
        LET nodes == request.graph.nodes.items
            edges == request.graph.edges.items
            c == request.context
            bullets == ContextSection(response.body)
        IN  /\ response.status = OK
            /\ nodes # <<>> =>
                  StackSection(response.body) =
                      [i \in 1..Len(nodes) |->
                          <<"- ", ShownLabel(nodes[i]), ": ", ShownDetails(nodes[i])>>]
            /\ \A e \in ItemsOf(edges) :
                  (Resolves(nodes, e.source) /\ Resolves(nodes, e.target))
                      => EdgeLines(nodes, e) \cap ItemsOf(ArchSection(response.body)) # {}
            /\ \A k \in 1..Len(bullets) : bullets[k][1] = "- "
            /\ c = NeedsLogin => bullets = << <<"- ", "needs login">> >>
            /\ (\E i \in 1..Len(c) : c[i] = "\n") =>
                  /\ Len(bullets) = Cardinality(InkedStarts(c))
                  /\ \A k \in 1..Len(bullets) :
                        bullets[k] = <<"- ">> \o Trimmed(LineAt(c, KthStart(c, k)))

\* the scenario of the specification: React/API, edge a->b, "needs login"
C9_Witness ==
    /\ BuilderServed
    /\ request.graph = ScenarioGraph
    /\ request.context = NeedsLogin
    /\ <<"- ", "React", ": ", "18.x">> \in ItemsOf(response.body)
    /\ <<"- ", "React", Arrow, "API">> \in ItemsOf(response.body)
    /\ <<"- ", "needs login">> \in ItemsOf(response.body)

\* a two-line context became two bullets
C9_WitnessMultiLine ==
    /\ BuilderServed
    /\ request.context = <<"a", "\n", "a">>
    /\ ContextSection(response.body) = << <<"- ", "a">>, <<"- ", "a">> >>

\* an explain or build-repo-script request that passes input validation
PassesValidation ==
    \/ /\ request.op = "explain-graph"
       /\ request.is_json
       /\ request.graph.kind = "dict"
       /\ request.graph.nodes.kind # "missing"
       /\ request.graph.edges.kind # "missing"
       /\ request.prompt # ""
    \/ /\ request.op = "generate-repo-script"
       /\ request.is_json
       /\ request.graph.kind = "dict"
       /\ request.graph.nodes.kind = "list"

\* C10: with the model client not configured, every explain and
\* build-repo-script request that passes input validation is answered
\* service-unavailable, and no model call is made for it.
C10_UnavailableWithoutModel ==
    (~gemini_model /\ PassesValidation)
        => /\ response.status = ServiceUnavailable
           /\ response.key = "error"
           /\ calls = 0
           /\ modelOut = NotCalled

C10_Witness ==
    /\ ~gemini_model
    /\ PassesValidation
    /\ request.op = "explain-graph"
    /\ response.status = ServiceUnavailable
    /\ calls = 0

\* the model was called for a graph operation / an explain operation and
\* reported a result without parts
GraphOpBlocked == request.op = "generate-graph" /\ modelOut.kind = "blocked"

ExplainBlocked == request.op = "explain-graph" /\ modelOut.kind = "blocked"

\* C11: when the model reports a blocked or empty result, a generate or
\* modify operation returns the Mock Graph and an explain operation returns
\* the fixed message 'AI explanation was blocked or empty.'; in neither case
\* is the response text read or parsed.
C11_BlockedNeverRead ==
    /\ GraphOpBlocked => (IsMockPayload(response) /\ ~text_read)
    /\ ExplainBlocked =>
           /\ response.status = 200
           /\ response.key = "explanation"
           /\ response.body = <<"AI explanation was blocked or empty.">>
           /\ ~text_read

\* a modify operation met a blocked result and answered the Mock Graph
C11_Witness ==
    /\ GraphOpBlocked
    /\ request.graph.kind = "dict"
    /\ Len(request.graph.nodes.items) > 0
    /\ calls = 1
    /\ IsMockPayload(response)
    /\ ~text_read

\* the lines printed just before a generate_content call
SendingLines ==
    { "Sending prompt to Gemini for NEW graph generation",
      "Sending prompt to Gemini for graph MODIFICATION/REPLACEMENT",
      "Sending prompt to Gemini for graph explanation",
      "Sending prompt to Gemini for Bash script generation" }

\* how many times the handler set out to call the model
Attempts == Cardinality({i \in 1..Len(log) : log[i] \in SendingLines})

\* the model call of the request raised an error
CallRaised == modelOut.kind = "raise"

\* the response carries the failure result of the operation and nothing the
\* model produced
FailureResult ==
    CASE request.op = "generate-graph" -> IsMockPayload(response)
      [] request.op = "explain-graph" ->
            response.body = <<"Error generating explanation: ", "<exception text>">>
      [] request.op = "generate-repo-script" ->
            response.body = <<"# Error generating Bash script via Gemini: ", "<exception text>">>
      [] OTHER -> FALSE

\* C12: the pipeline never retries: the model is called at most once per
\* request of any operation, and a call that raises leads directly to the
\* operation's fallback or error result (the Mock Graph for graph
\* operations) without a second call.
C12_NoRetry ==
    /\ calls \in {0, 1}
    /\ Attempts = calls
    /\ CallRaised => (calls = 1 /\ FailureResult)

\* a modify operation whose one call raised answered the Mock Graph
C12_Witness ==
    /\ CallRaised
    /\ request.op = "generate-graph"
    /\ request.graph.kind = "dict"
    /\ Len(request.graph.nodes.items) > 0
    /\ calls = 1
    /\ Attempts = 1
    /\ IsMockPayload(response)

\* the model answered a build-repo-script request with a non-empty text
ScriptAnswered ==
    /\ request.op = "generate-repo-script"
    /\ modelOut.kind = "text"
    /\ modelOut.text # <<>>

\* a script text without the whitespace around it
TrimmedText(t) == IF Blank(t) THEN <<>> ELSE Trimmed(t)

\* the text starts with the script-start marker
Marked(t) == t # <<>> /\ t[1] = "#!/bin/bash"

\* the repair: the leading fence is stripped once and, if one was there,
\* the trailing fence
Repaired(t) ==
    LET a == TrimmedText(t)
    IN  IF a # <<>> /\ a[1] = "<fence>bash"
        THEN LET b == TrimmedText(Tail(a))
             IN  IF b # <<>> /\ b[Len(b)] = "<fence>"
                 THEN TrimmedText(SubSeq(b, 1, Len(b) - 1))
                 ELSE b
        ELSE a

\* the text is the '# Warning:' line, a line break and then u
WarningThen(text, u) ==
    /\ Len(text) >= Len(u) + 2
    /\ text[1] = "# Warning:"
    /\ text[Len(text) - Len(u)] = "\n"
    /\ SubSeq(text, Len(text) - Len(u) + 1, Len(text)) = u
    /\ \A i \in 1..(Len(text) - Len(u) - 1) : text[i] # "\n"

C13_WitnessWarned ==
    /\ ScriptAnswered
    /\ modelOut.text = <<"<fence>bash", "<fence>bash", "#!/bin/bash">>
    /\ response.key = "error"
    /\ WarningThen(response.body, <<"<fence>bash", "#!/bin/bash">>)

\* a build-repo-script request whose model call failed: it raised, or the
\* result had no parts
ScriptCallFailed ==
    /\ request.op = "generate-repo-script"
    /\ modelOut.kind \in {"raise", "blocked"}

\* C14: every failure result of generate_repo_builder_script_with_gemini is
\* a text prefixed with '# Error:', so the build-repo-script endpoint
\* reports every such failure as an error response and never as a
\* successful 'bashScript' payload.
C14_FailureNeverAScript ==
    ScriptCallFailed
        => /\ response.key = "error"
           /\ response.key # "bashScript"
           /\ response.body # <<>>
           /\ response.body[1] = "# Error:"

\* the helper printed its line, so it ran
RanGenerate ==
    \E i \in 1..Len(log) : log[i] = "Sending prompt to Gemini for NEW graph generation"

RanModify ==
    \E i \in 1..Len(log) :
        log[i] = "Sending prompt to Gemini for graph MODIFICATION/REPLACEMENT"

\* the existing graph of the request is present and has at least one node
NonEmptyExisting ==
    /\ request.graph.kind = "dict"
    /\ request.graph.nodes.kind = "list"
    /\ Len(request.graph.nodes.items) >= 1

\* a generate-graph request with a prompt, the model configured, whose
\* existing graph is absent or an object
Dispatched ==
    /\ GenerateServed
    /\ gemini_model
    /\ request.graph.kind \in {"absent", "dict"}

C15_WitnessEmpty ==
    /\ Dispatched
    /\ request.graph.kind = "dict"
    /\ request.graph.nodes = [kind |-> "list", items |-> <<>>]
    /\ RanGenerate
    /\ ~RanModify

\* a generate-graph request with a prompt whose existing graph is present
\* but malformed: no object, or an object whose nodes field is no sequence
MalformedExisting ==
    /\ GenerateServed
    /\ \/ request.graph.kind = "array"
       \/ request.graph.kind = "dict" /\ request.graph.nodes.kind = "other"

\* C16: a generate-or-modify request whose existingGraph is present but
\* malformed is surfaced to the caller as a client error: it is answered
\* neither with a graph nor with an internal error, and no model call is
\* made.  (Stated for a configured model, where the request is not stopped
\* by the availability check.)
C16_MalformedExistingRejected ==
    (MalformedExisting /\ gemini_model)
        => /\ response.status = 400
           /\ response.key = "error"
           /\ calls = 0

\* a graph operation substituted the Mock Graph
FellBack == request.op = "generate-graph" /\ IsMockPayload(response)

\* the log lines that name the condition a fallback was triggered by
ConditionLines(kind) ==
    CASE kind = "none" -> {"Gemini model not initialized, using mock fallback."}
      [] kind = "raise" ->
            { "Error during Gemini call or processing, using mock fallback.",
              "Error during Gemini call for graph MODIFICATION/REPLACEMENT" }
      [] kind = "blocked" ->
            { "Warning: Gemini response blocked or empty.",
              "Gemini response blocked/empty, using mock fallback." }
      [] kind = "text" ->
            { "JSON Decode Error (React Flow format)",
              "Invalid JSON from Gemini, using mock fallback.",
              "Generated JSON has incorrect structure, using mock fallback." }

\* the line create_mock_tech_stack prints when it builds the fallback graph
FallbackBuilt(i) == log[i] = "Creating mock tech stack as fallback for description"

\* C17: every path on which a graph operation substitutes the Mock Graph
\* (model unconfigured, call error, blocked or empty response, extraction
\* failure, schema-validation failure), in generate and in modify alike,
\* emits a log entry that identifies the triggering condition before the
\* fallback graph is returned.
C17_FallbackLogged ==
    FellBack
        => \E j \in 1..Len(log) :
               /\ FallbackBuilt(j)
               /\ \E i \in 1..(j - 1) : log[i] \in ConditionLines(modelOut.kind)

\* the same for the generate-fresh operation alone
C17_GenerateFallbackLogged ==
    (FellBack /\ RanGenerate)
        => \E j \in 1..Len(log) :
               /\ FallbackBuilt(j)
               /\ \E i \in 1..(j - 1) : log[i] \in ConditionLines(modelOut.kind)

\* the model call of an explain request raised an error
ExplainCallRaised == request.op = "explain-graph" /\ modelOut.kind = "raise"

\* the response body carries the text of the raised error
CarriesDiagnostic ==
    \E i \in 1..Len(response.body) : response.body[i] = "<exception text>"

\* C18: when the model call raises during an explain operation, the failure
\* reaches the caller as an error outcome, not as a successful response
\* whose explanation field carries text, and the response does not include
\* the raised error's diagnostic text.
C18_ExplainFailureIsError ==
    ExplainCallRaised
        => /\ response.key = "error"
           /\ response.status # 200
           /\ ~CarriesDiagnostic

\* a JSON request that lacks a field its operation requires
MissingRequired ==
    /\ request.is_json
    /\ CASE request.op = "generate-graph" -> request.prompt = ""
         [] request.op = "explain-graph" ->
               request.graph.kind = "absent" \/ request.prompt = ""
         [] request.op = "generate-builder-prompt" -> request.graph.kind = "absent"
         [] request.op = "generate-repo-script" -> request.graph.kind = "absent"
         [] OTHER -> FALSE

\* C20: input validation is decided before model availability and before
\* any model call: a request missing a required field gets a client-error
\* outcome even when the model is unconfigured, and no model call is made
\* for a request that ends in a client-error or service-unavailable outcome.
C20_ValidationFirst ==
    /\ MissingRequired => (response.status = 400 /\ response.key = "error")
    /\ response.status \in {400, 503} =>
           /\ calls = 0
           /\ Attempts = 0
           /\ modelOut.kind = "none"
           /\ ~text_read

\* with the model unconfigured, a build-repo-script request without graph
\* data was answered with a client error
C20_Witness ==
    /\ ~gemini_model
    /\ request.op = "generate-repo-script"
    /\ MissingRequired
    /\ response.status = 400
    /\ calls = 0

\* thread t has read the model handle
HasChecked(t) == threads[t].pc \in {"call", "respond", "done"}

\* C19: the model client handle is set once at process start and no request
\* handler ever changes it: under any interleaving of concurrent requests
\* of the four operations the handle keeps its startup value (every handler
\* reads that value), and after a failed initialization no request
\* initializes it again.
C19_HandleReadOnly ==
    /\ [][gemini_model' = gemini_model]_vars
    /\ [](\A t \in Workers : HasChecked(t) => threads[t].model = gemini_model)

\* after a failed initialization two requests of different operations were
\* in flight at once and both were refused, the handle still unset
C19_Witness ==
    /\ ~gemini_model
    /\ threads[1].pc = "done"
    /\ threads[1].req.op = "explain-graph"
    /\ threads[1].response.status = 503
    /\ threads[2].pc = "done"
    /\ threads[2].req.op = "generate-repo-script"
    /\ threads[2].response.status = 503

\* a request was handled that submitted a graph object
GraphSubmitted ==
    /\ request.op \in {"generate-graph", "explain-graph", "generate-builder-prompt",
                       "generate-repo-script"}
    /\ request.graph.kind = "dict"

\* the graph answered is the object parsed from the model's text
AnsweredParsed ==
    /\ modelOut.kind = "text"
    /\ ~NoBracePair(modelOut.text)
    /\ ParseDocument(BraceSlice(modelOut.text), TRUE).ok
    /\ response.body = ParseDocument(BraceSlice(modelOut.text), TRUE).val

\* no node of the graph answered is a node of the submitted graph
SharesNoNode ==
    \A i \in 1..Len(response.body.nodes.items) :
        \A j \in 1..Len(request.graph.nodes.items) :
            response.body.nodes.items[i] # request.graph.nodes.items[j]

\* C21: every operation treats the caller's graph as immutable input: after
\* modify-or-replace, explain, build-agent-prompt or build-repo-script
\* returns, on the success path and on every fallback or error path, the
\* submitted graph's nodes and edges are unchanged, and the graph returned
\* by modify is a separate value (the model's parsed object or the Mock
\* Graph), never the submitted graph patched in place.
C21_SubmittedGraphUntouched ==
    /\ GraphSubmitted =>
           /\ graph_after.nodes = request.graph.nodes
           /\ graph_after.edges = request.graph.edges
    /\ (RanModify /\ response.key = "graph") =>
           /\ IsMockPayload(response) \/ AnsweredParsed
           /\ SharesNoNode

\* modify-or-replace answered the model's graph and left the submitted
\* graph of two nodes as it was
C21_Witness ==
    /\ RanModify
    /\ response.key = "graph"
    /\ AnsweredParsed
    /\ ~IsMockPayload(response)
    /\ Len(request.graph.nodes.items) = 2
    /\ graph_after = request.graph

\* modify-or-replace fell back to the Mock Graph and left the submitted
\* graph as it was
C21_WitnessFallback ==
    /\ RanModify
    /\ IsMockPayload(response)
    /\ Len(request.graph.nodes.items) = 2
    /\ graph_after = request.graph

\* a graph helper returned a value
HelperReturned == returned.helper # "none"

\* the value is the Mock Graph as create_mock_tech_stack builds it
IsMockGraph(g) ==
    /\ g.nodes.kind = "list"
    /\ g.edges.kind = "list"
    /\ Len(g.nodes.items) = 3
    /\ Len(g.edges.items) = 2
    /\ g.nodes.items[1].id = "mock_node_react"
    /\ g.nodes.items[2].id = "mock_node_flask"
    /\ g.nodes.items[3].id = "mock_node_postgres"
    /\ g.mocked

\* the value is the object parsed from the model's text, and that object
\* has sequences for nodes and edges
IsValidatedParse(g) ==
    /\ gemini_model
    /\ modelOut.kind = "text"
    /\ ~NoBracePair(modelOut.text)
    /\ LET parsed == ParseDocument(BraceSlice(modelOut.text), TRUE)
       IN  /\ parsed.ok
           /\ parsed.val.nodes.kind = "list"
           /\ parsed.val.edges.kind = "list"
           /\ g = parsed.val

\* C22: for every model behaviour (unconfigured, raising, blocked or empty,
\* arbitrary text), every value returned by generate_graph_from_scratch and
\* modify_or_replace_graph has a nodes field that is a sequence and an edges
\* field that is a sequence, and a returned graph that is not the Mock Graph
\* is exactly the object parsed from the model's text after it passed the
\* structural check.
C22_ReturnedGraphWellFormed ==
    HelperReturned
        => /\ returned.graph.nodes.kind = "list"
           /\ returned.graph.edges.kind = "list"
           /\ IsMockGraph(returned.graph) \/ IsValidatedParse(returned.graph)

\* modify_or_replace_graph returned the object parsed from the model's
\* text, a further member included
C22_Witness ==
    /\ returned.helper = "modify_or_replace_graph"
    /\ modelOut = [kind |-> "text", text |-> <<"{", "g", "v", "}">>]
    /\ ~IsMockGraph(returned.graph)
    /\ IsValidatedParse(returned.graph)
    /\ returned.graph.v

\* generate_graph_from_scratch returned the Mock Graph without a model
C22_WitnessUnconfigured ==
    /\ returned.helper = "generate_graph_from_scratch"
    /\ ~gemini_model
    /\ calls = 0
    /\ IsMockGraph(returned.graph)

====
